---- MODULE Spec2Model ----
(***************************************************************************)
(* A model of the movie-collection browser front end (src/app.js, the      *)
(* fan-out variant that starts at line 165): the catalog loader, the       *)
(* render pass with its batched mounting, the genre / search filters and   *)
(* the detail overlay.                                                     *)
(*                                                                         *)
(* Strings are sequences of one-character strings, so that split, join,    *)
(* toLowerCase, includes and the default sort order are computed as the    *)
(* JavaScript code computes them.                                          *)
(***************************************************************************)
EXTENDS Integers, Sequences, FiniteSets, TLC

VARIABLES
    server,      \* the static resources: the index rows and the detail records
    checked,     \* the "checked" property of #viewToggle
    passes,      \* one record per renderMovies activation
    grid,        \* the children of #movie-grid
    sidebar,     \* the children of #genre-nav (the genre of each button)
    spinnerHidden, \* #sidebar-spinner has display: none
    rafQueue,    \* the renderBatch callbacks waiting for the next animation frame
    lastArrival, \* the order in which the detail fetches completed whose
                 \* Promise.all the last step resolved (empty after any other step)
    searchValue, \* the value of #searchInput
    lastGenre,   \* the genre of the sidebar button clicked last ("All" before any)
    filterCalls, \* "none", "rendered" (every filter call so far was made on the
                 \* fully rendered catalog and no render began since) or "mixed"
    lastFilter,  \* which handler made the last filter call ("none" before any),
                 \* and whether a render pass was between two batches then
    fetches,     \* how many fetches of each resource have been issued
    modals,      \* the elements with id movie-modal in document.body
    overlayPending, \* the showMovieDetails activations awaiting their fetch
    clicks       \* the identifier of the movie of each showMovieDetails call, in call order

vars == <<server, checked, passes, grid, sidebar, spinnerHidden, rafQueue, lastArrival,
          searchValue, lastGenre, filterCalls, lastFilter, fetches, modals, overlayPending, clicks>>

----------------------------------------------------------------------------
(* Bounds of the model *)

\* catalogs of up to MaxSmall entries are drawn with every choice of records
MaxSmall == 2
\* the long catalog has batchSize + BigExtra entries
BigExtra == 1
\* renderMovies activations in one behaviour (the initial one included)
MaxPasses == 2
\* showMovieDetails invocations in one behaviour
MaxClicks == 3
\* data rows of the index file in the loader specification
MaxRows == 3

(* Program constants *)
batchSize == 10
skeletonCount == 10

----------------------------------------------------------------------------
(* Characters and strings *)

TAB == "\t"
NL == "\n"

UpperCase == <<"A","B","C","D","E","F","G","H","I","J","K","L","M",
               "N","O","P","Q","R","S","T","U","V","W","X","Y","Z">>
LowerCase == <<"a","b","c","d","e","f","g","h","i","j","k","l","m",
               "n","o","p","q","r","s","t","u","v","w","x","y","z">>
Digits == <<"0","1","2","3","4","5","6","7","8","9">>

IndexIn(seq, c) == CHOOSE i \in 1..Len(seq) : seq[i] = c
IsIn(seq, c) == \E i \in 1..Len(seq) : seq[i] = c

\* the UTF-16 code unit of a character
CharCode(c) ==
    IF IsIn(UpperCase, c) THEN 64 + IndexIn(UpperCase, c)
    ELSE IF IsIn(LowerCase, c) THEN 96 + IndexIn(LowerCase, c)
    ELSE IF IsIn(Digits, c) THEN 47 + IndexIn(Digits, c)
    ELSE IF c = TAB THEN 9
    ELSE IF c = NL THEN 10
    ELSE IF c = " " THEN 32
    ELSE IF c = "," THEN 44
    ELSE 45

LowerChar(c) == IF IsIn(UpperCase, c) THEN LowerCase[IndexIn(UpperCase, c)] ELSE c

\* String.prototype.toLowerCase
RECURSIVE toLowerCase(_)
toLowerCase(s) ==
    IF s = <<>> THEN <<>> ELSE <<LowerChar(Head(s))>> \o toLowerCase(Tail(s))

\* String.prototype.includes
StrIncludes(s, q) ==
    \E i \in 1..(Len(s) - Len(q) + 1) : SubSeq(s, i, i + Len(q) - 1) = q

\* Array.prototype.includes
ArrIncludes(arr, x) == \E i \in 1..Len(arr) : arr[i] = x

SepAt(s, sep, i) == SubSeq(s, i, i + Len(sep) - 1) = sep

\* String.prototype.split with a non-empty separator: cut at the first
\* occurrence of sep at or after start, then go on behind it
RECURSIVE SplitRec(_, _, _)
SplitRec(s, sep, start) ==
    LET hits == {i \in start..(Len(s) - Len(sep) + 1) : SepAt(s, sep, i)}
    IN  IF hits = {} THEN <<SubSeq(s, start, Len(s))>>
        ELSE LET i == CHOOSE h \in hits : \A g \in hits : h <= g
             IN  <<SubSeq(s, start, i - 1)>> \o SplitRec(s, sep, i + Len(sep))

StrSplit(s, sep) == SplitRec(s, sep, 1)

\* Array.prototype.join
RECURSIVE ArrJoin(_, _)
ArrJoin(arr, sep) ==
    IF arr = <<>> THEN <<>>
    ELSE IF Len(arr) = 1 THEN arr[1]
    ELSE arr[1] \o sep \o ArrJoin(Tail(arr), sep)

\* the order of the default Array.prototype.sort: by UTF-16 code units
RECURSIVE StrLess(_, _)
StrLess(a, b) ==
    IF b = <<>> THEN FALSE
    ELSE IF a = <<>> THEN TRUE
    ELSE IF CharCode(Head(a)) # CharCode(Head(b))
         THEN CharCode(Head(a)) < CharCode(Head(b))
         ELSE StrLess(Tail(a), Tail(b))

RECURSIVE InsertSorted(_, _)
InsertSorted(sorted, x) ==
    IF sorted = <<>> THEN <<x>>
    ELSE IF StrLess(x, Head(sorted)) THEN <<x>> \o sorted
    ELSE <<Head(sorted)>> \o InsertSorted(Tail(sorted), x)

RECURSIVE ArrSort(_)
ArrSort(arr) ==
    IF arr = <<>> THEN <<>>
    ELSE InsertSorted(ArrSort(SubSeq(arr, 1, Len(arr) - 1)), arr[Len(arr)])

\* Set.prototype.add on a set kept in insertion order
SetAdd(set, x) == IF ArrIncludes(set, x) THEN set ELSE Append(set, x)

RECURSIVE SetAddAll(_, _)
SetAddAll(set, arr) ==
    IF arr = <<>> THEN set ELSE SetAddAll(SetAdd(set, Head(arr)), Tail(arr))

Range(seq) == {seq[i] : i \in 1..Len(seq)}

----------------------------------------------------------------------------
(* The words of the fixtures *)

sAll == <<"A","l","l">>
sUnknown == <<"U","n","k","n","o","w","n">>
sHorror == <<"H","o","r","r","o","r">>
sComedy == <<"C","o","m","e","d","y">>
shorror == <<"h","o","r","r","o","r">>
sGrid == "grid"
sList == "list"


----------------------------------------------------------------------------
(* The static resources *)

\* the value of a missing array element or object property
Undefined == <<"<undefined>">>

\* data/movie_collection.tsv as write.table leaves it: the fields of a row
\* joined by tabs, the rows joined by newlines
TsvText(rows) ==
    ArrJoin([i \in 1..Len(rows) |-> ArrJoin(rows[i], <<TAB>>)], <<NL>>)

DecimalOf(k) ==
    IF k < 10 THEN <<Digits[k + 1]>>
    ELSE <<Digits[(k \div 10) + 1], Digits[(k % 10) + 1]>>

IdOf(k) == <<"t", "t">> \o DecimalOf(k)

HeaderRow == << <<"t">>, <<"y">>, <<"f">>, <<"s">>, <<"i","d">> >>
EmptyRow == << <<>> >>
DataRow(id) == << <<"T">>, <<"Y">>, <<"F">>, <<"S">>, id >>

\* A detail record: Title, and Genre as it stands in details.json (absent, a
\* scalar string, or a list of strings; a scalar is kept as a list of one)
Rec(title, kind, value) == [Title |-> title, Genre |-> [kind |-> kind, value |-> value]]

Records ==
    { Rec(<<"U","p">>, "list", <<sHorror, sComedy>>),
      Rec(<<"I","t">>, "list", <<sComedy>>),
      Rec(<<"P","i","t">>, "scalar", <<sHorror>>),
      Rec(<<"U","s">>, "list", <<>>),
      Rec(<<"T","o","p">>, "absent", <<>>),
      Rec(<<"H","u","t">>, "list", <<shorror, sHorror>>) }

\* the search strings typed in the model
Queries == { <<>>, <<"P">>, <<"z">> }

\* the server holding the catalog recs (a sequence of detail records)
ServerOf(recs) ==
    [ rows |-> <<HeaderRow>> \o [k \in 1..Len(recs) |-> DataRow(IdOf(k))] \o <<EmptyRow>>,
      details |-> [id \in {IdOf(k) : k \in 1..Len(recs)} |->
                     recs[CHOOSE k \in 1..Len(recs) : IdOf(k) = id]] ]

SeqsUpTo(S, n) == UNION {[1..m -> S] : m \in 0..n}

\* the long catalog: more entries than one batch mounts, all with the same
\* record but for the identifier
LongRecord == Rec(<<"U","p">>, "list", <<sHorror, sComedy>>)

LongCatalog == [k \in 1..(batchSize + BigExtra) |-> LongRecord]

SmallCatalogs == SeqsUpTo(Records, MaxSmall)

Catalogs == SmallCatalogs \cup {LongCatalog}

----------------------------------------------------------------------------
(* The catalog loader *)

\* line.split("\t")[4]
IdField(line) ==
    LET fields == StrSplit(line, <<TAB>>)
    IN  IF Len(fields) >= 5 THEN fields[5] ELSE Undefined

\* the truthiness of a string or undefined
Truthy(v) == v # Undefined /\ v # <<>>

RECURSIVE FilterTruthy(_)
FilterTruthy(arr) ==
    IF arr = <<>> THEN <<>>
    ELSE IF Truthy(Head(arr)) THEN <<Head(arr)>> \o FilterTruthy(Tail(arr))
    ELSE FilterTruthy(Tail(arr))

fetchMovieDirectoriesKeepHeader(tsvData) ==
    LET lines == StrSplit(tsvData, <<NL>>)
    IN  FilterTruthy([i \in 1..Len(lines) |-> IdField(lines[i])])

\* split("\n").slice(1).map(line => line.split("\t")[4]).filter(imdb_id => imdb_id)
fetchMovieDirectories(tsvData) ==
    LET lines == StrSplit(tsvData, <<NL>>)
        rest == Tail(lines)
    IN  FilterTruthy([i \in 1..Len(rest) |-> IdField(rest[i])])


----------------------------------------------------------------------------
(* The render pass: renderMovies and renderMoviesIncrementally *)

\* the activation record of one renderMovies(view) call at its first await
\* indexResponse is what the fetch of the index came to ("pending" until it
\* did), rejectedAt the position of the identifier whose detail fetch was
\* rejected (0 for none), sidebarBuilt whether the call reached renderSidebar
NewPass(view) ==
    [ view |-> view, pc |-> "fetchIndex", imdbIds |-> <<>>, allMovies |-> <<>>,
      index |-> 0, indexResponse |-> "pending", rejectedAt |-> 0,
      sidebarBuilt |-> FALSE ]

Skeleton ==
    [ cls |-> "skeleton", view |-> "", imdbId |-> <<>>, title |-> <<>>,
      genres |-> <<>>, dnone |-> FALSE, pass |-> 0, k |-> 0 ]

\* container.innerHTML = "" and then count skeleton placeholders
showLoadingSkeleton == [i \in 1..skeletonCount |-> Skeleton]

IssueFetch(log, what, n) == [log EXCEPT ![what] = @ + n]

IssueIndexFetchOnce(log) == IF log.index = 0 THEN IssueFetch(log, "index", 1) ELSE log

\* the fetch of data/movie_collection.tsv that renderMovies starts with
IssueIndexFetch(log) == IssueFetch(log, "index", 1)

\* the orders in which n concurrent fetches complete: every order for n <= 3,
\* and these six shapes of it for a longer list
ArrivalOrders(n) ==
    { [k \in 1..n |-> k],
      [k \in 1..n |-> n + 1 - k],
      [k \in 1..n |-> (k % n) + 1],
      [k \in 1..n |-> ((k + n - 2) % n) + 1],
      [k \in 1..n |-> IF n >= 2 /\ k <= 2 THEN 3 - k ELSE k],
      [k \in 1..n |-> IF n >= 2 /\ k >= n - 1 THEN 2 * n - 1 - k ELSE k] }

\* Promise.all(imdbIds.map(fetchMovieDetails)): the k-th result is the record
\* of the k-th identifier, in whatever order the fetches completed
PromiseAllArrivalOrdered(ids, order) ==
    [k \in 1..Len(ids) |-> server.details[ids[order[k]]]]

PromiseAll(ids, order) ==
    [k \in 1..Len(ids) |-> server.details[ids[k]]]

\* Array.isArray(details.Genre) ? details.Genre : ["Unknown"]
GenresOf(details) ==
    IF details.Genre.kind = "list" THEN details.Genre.value ELSE <<sUnknown>>

\* the object pushed on allMovies
MovieOf(id, details) ==
    [ imdbId |-> id, title |-> details.Title,
      genres |-> ArrJoin(GenresOf(details), <<",", " ">>) ]

RECURSIVE UniqueGenres(_, _)
UniqueGenres(set, detailsList) ==
    IF detailsList = <<>> THEN set
    ELSE UniqueGenres(SetAddAll(set, GenresOf(Head(detailsList))), Tail(detailsList))

\* createGridElement / createListElement: the element of movie number k of
\* pass p, whose click handler holds that movie
CreateElement(movie, view, p, k) ==
    [ cls |-> "movie-item", view |-> view, imdbId |-> movie.imdbId,
      title |-> movie.title, genres |-> movie.genres, dnone |-> FALSE,
      pass |-> p, k |-> k ]

\* the loop of renderBatch
RECURSIVE RenderBatchLoop(_, _, _, _, _, _)
RenderBatchLoop(fragment, i, index, movies, view, p) ==
    IF i < batchSize /\ index < Len(movies)
    THEN RenderBatchLoop(Append(fragment, CreateElement(movies[index + 1], view, p, index + 1)),
                         i + 1, index + 1, movies, view, p)
    ELSE [fragment |-> fragment, index |-> index]

SidebarUnsorted(genres) == <<sAll>> \o genres

\* renderSidebar: the genre of each button, in the order appended
renderSidebar(genres) == <<sAll>> \o ArrSort(genres)

Init ==
    /\ server \in {ServerOf(c) : c \in Catalogs}
    /\ checked \in BOOLEAN
    /\ passes = <<NewPass(sGrid)>>
    /\ grid = showLoadingSkeleton
    /\ sidebar = <<>>
    /\ spinnerHidden = FALSE
    /\ rafQueue = <<>>
    /\ lastArrival = <<>>
    /\ searchValue = <<>>
    /\ lastGenre = sAll
    /\ filterCalls = "none"
    /\ lastFilter = [kind |-> "none", batching |-> FALSE]
    /\ fetches = IssueIndexFetch([index |-> 0, icons |-> 0, details |-> 0])
    /\ modals = <<>>
    /\ overlayPending = {}
    /\ clicks = <<>>

\* the change handler of #viewToggle: renderMovies(view) up to its first await
ViewToggle ==
    /\ Len(passes) < MaxPasses
    /\ checked' = ~checked
    /\ passes' = Append(passes, NewPass(IF checked' THEN sGrid ELSE sList))
    /\ grid' = showLoadingSkeleton
    /\ sidebar' = <<>>
    /\ fetches' = IssueIndexFetch(fetches)
    /\ filterCalls' = IF filterCalls = "none" THEN "none" ELSE "mixed"
    /\ lastArrival' = <<>>
    /\ UNCHANGED <<server, spinnerHidden, rafQueue, searchValue, lastGenre,
                   lastFilter, modals, overlayPending, clicks>>

\* fetchMovieDirectories resolves; loadGenreIcons is called
IndexFetched(p) ==
    /\ passes[p].pc = "fetchIndex"
    /\ passes' = [passes EXCEPT ![p].pc = "fetchIcons",
                                ![p].indexResponse = "ok",
                                ![p].imdbIds = fetchMovieDirectories(TsvText(server.rows))]
    /\ fetches' = IssueFetch(fetches, "icons", 1)
    /\ lastArrival' = <<>>
    /\ UNCHANGED <<server, checked, grid, sidebar, spinnerHidden, rafQueue,
                   searchValue, lastGenre, filterCalls, lastFilter, modals, overlayPending, clicks>>

\* the body of the answer to a request for a file the server does not have
NotFoundPage ==
    <<"4", "0", "4", NL, "N", "o", "t", " ", "F", "o", "u", "n", "d", NL>>

\* the index file is missing: fetch resolves with the server's 404 answer,
\* response.text() is its body, and the identifiers are parsed out of that
IndexNotFound(p) ==
    /\ passes[p].pc = "fetchIndex"
    /\ passes' = [passes EXCEPT ![p].pc = "fetchIcons",
                                ![p].indexResponse = "notFound",
                                ![p].imdbIds = fetchMovieDirectories(NotFoundPage)]
    /\ fetches' = IssueFetch(fetches, "icons", 1)
    /\ lastArrival' = <<>>
    /\ UNCHANGED <<server, checked, grid, sidebar, spinnerHidden, rafQueue,
                   searchValue, lastGenre, filterCalls, lastFilter, modals, overlayPending, clicks>>

AwaitSwallowed(pass) == pass

\* an await of a rejected promise in renderMovies: the exception leaves the
\* async function, nothing after the await runs
AwaitRejected(pass) == [pass EXCEPT !.pc = "rejected"]

\* the fetch of the index fails (no answer from the server): fetch rejects,
\* fetchMovieDirectories has no handler for it and rejects, and so does the
\* await of it in renderMovies
IndexFetchFailed(p) ==
    /\ passes[p].pc = "fetchIndex"
    /\ passes' = [passes EXCEPT ![p] = AwaitRejected([@ EXCEPT !.indexResponse = "failed"])]
    /\ lastArrival' = <<>>
    /\ UNCHANGED <<server, checked, grid, sidebar, spinnerHidden, rafQueue,
                   searchValue, lastGenre, filterCalls, lastFilter, fetches, modals,
                   overlayPending, clicks>>

\* loadGenreIcons resolves; one fetchMovieDetails per identifier is called
IconsFetched(p) ==
    /\ passes[p].pc = "fetchIcons"
    /\ passes' = [passes EXCEPT ![p].pc = "fetchDetails"]
    /\ fetches' = IssueFetch(fetches, "details", Len(passes[p].imdbIds))
    /\ lastArrival' = <<>>
    /\ UNCHANGED <<server, checked, grid, sidebar, spinnerHidden, rafQueue,
                   searchValue, lastGenre, filterCalls, lastFilter, modals, overlayPending, clicks>>

\* Promise.all resolves: allMovies is built, the first batch is mounted, the
\* sidebar is rebuilt and the spinner hidden
DetailsFetched(p, order) ==
    /\ passes[p].pc = "fetchDetails"
    /\ \A i \in 1..Len(passes[p].imdbIds) : passes[p].imdbIds[i] \in DOMAIN server.details
    /\ LET ids == passes[p].imdbIds
           movieDetailsList == PromiseAll(ids, order)
           allMovies == [k \in 1..Len(ids) |-> MovieOf(ids[k], movieDetailsList[k])]
           uniqueGenres == UniqueGenres(<<>>, movieDetailsList)
           batch == RenderBatchLoop(<<>>, 0, 0, allMovies, passes[p].view, p)
           more == batch.index < Len(allMovies)
       IN  /\ grid' = grid \o batch.fragment
           /\ rafQueue' = IF more THEN Append(rafQueue, p) ELSE rafQueue
           /\ passes' = [passes EXCEPT ![p].pc = IF more THEN "batching" ELSE "done",
                                       ![p].allMovies = allMovies,
                                       ![p].index = batch.index,
                                       ![p].sidebarBuilt = TRUE]
           /\ sidebar' = renderSidebar(uniqueGenres)
    /\ spinnerHidden' = TRUE
    /\ lastArrival' = order
    /\ UNCHANGED <<server, checked, searchValue, lastGenre, filterCalls, lastFilter, fetches,
                   modals, overlayPending, clicks>>

\* fetchMovieDetails of identifier number k rejects (the fetch fails, or the
\* answer is no JSON): Promise.all rejects with it, whatever the other fetches
\* come to, and so does the await of it in renderMovies
DetailsRejected(p, k) ==
    /\ passes[p].pc = "fetchDetails"
    /\ k \in 1..Len(passes[p].imdbIds)
    /\ passes' = [passes EXCEPT ![p] = AwaitRejected([@ EXCEPT !.rejectedAt = k])]
    /\ lastArrival' = <<>>
    /\ UNCHANGED <<server, checked, grid, sidebar, spinnerHidden, rafQueue,
                   searchValue, lastGenre, filterCalls, lastFilter, fetches, modals,
                   overlayPending, clicks>>

\* the renderBatch callbacks of one animation frame, in the order requested
RECURSIVE RunFrame(_, _, _, _)
RunFrame(queue, g, ps, requested) ==
    IF queue = <<>> THEN [grid |-> g, passes |-> ps, queue |-> requested]
    ELSE LET p == Head(queue)
             batch == RenderBatchLoop(<<>>, 0, ps[p].index, ps[p].allMovies, ps[p].view, p)
             more == batch.index < Len(ps[p].allMovies)
         IN  RunFrame(Tail(queue), g \o batch.fragment,
                      [ps EXCEPT ![p].index = batch.index,
                                 ![p].pc = IF more THEN "batching" ELSE "done"],
                      IF more THEN Append(requested, p) ELSE requested)

AnimationFrameSkipped ==
    /\ rafQueue # <<>>
    /\ rafQueue' = <<>>
    /\ lastArrival' = <<>>
    /\ UNCHANGED <<server, checked, passes, grid, sidebar, spinnerHidden, searchValue,
                   lastGenre, filterCalls, lastFilter, fetches, modals, overlayPending, clicks>>

AnimationFrame ==
    /\ rafQueue # <<>>
    /\ LET r == RunFrame(rafQueue, grid, passes, <<>>)
       IN  /\ grid' = r.grid
           /\ passes' = r.passes
           /\ rafQueue' = r.queue
    /\ lastArrival' = <<>>
    /\ UNCHANGED <<server, checked, sidebar, spinnerHidden, searchValue, lastGenre,
                   filterCalls, lastFilter, fetches, modals, overlayPending, clicks>>

FullyRendered == \A p \in 1..Len(passes) : passes[p].pc = "done"


----------------------------------------------------------------------------
(* The filter controller *)

\* toggleVisibility(item, predicate) on one child of the container
toggleVisibility(item, predicate) == [item EXCEPT !.dnone = ~predicate]

\* item.dataset.genres?.split(", ") || []
GenreListCommaOnly(item) == StrSplit(item.genres, <<",">>)

GenreList(item) == StrSplit(item.genres, <<",", " ">>)

\* the test of the genre button's click handler
GenreMatches(item, genre) == genre = sAll \/ ArrIncludes(GenreList(item), genre)

\* the test of the search handler; query is already lower-cased
TitleIncludes(item, query) == StrIncludes(toLowerCase(item.title), query)

\* document.querySelectorAll(".movie-item").forEach(item => toggleVisibility(
\* item, predicate)), predicate[i] being the handler's test of child i
ForEachMovieItem(container, predicate) ==
    [i \in 1..Len(container) |->
        IF container[i].cls = "movie-item"
        THEN toggleVisibility(container[i], predicate[i])
        ELSE container[i]]

\* a renderBatch callback is waiting for its animation frame
BetweenBatches == \E p \in 1..Len(passes) : passes[p].pc = "batching"

NoteFilterCall ==
    filterCalls' = IF FullyRendered /\ filterCalls # "mixed" THEN "rendered" ELSE "mixed"

\* the click handler of sidebar button b
SelectGenre(b) ==
    /\ b \in 1..Len(sidebar)
    /\ LET genre == sidebar[b]
       IN  /\ grid' = ForEachMovieItem(grid, [i \in 1..Len(grid) |-> GenreMatches(grid[i], genre)])
           /\ lastGenre' = genre
    /\ NoteFilterCall
    /\ lastFilter' = [kind |-> "genre", batching |-> BetweenBatches]
    /\ lastArrival' = <<>>
    /\ UNCHANGED <<server, checked, passes, sidebar, spinnerHidden, rafQueue,
                   searchValue, fetches, modals, overlayPending, clicks>>

\* the input handler of #searchInput, the value having changed to value
ApplySearch(value) ==
    /\ value # searchValue
    /\ LET query == toLowerCase(value)
       IN  grid' = ForEachMovieItem(grid, [i \in 1..Len(grid) |-> TitleIncludes(grid[i], query)])
    /\ searchValue' = value
    /\ NoteFilterCall
    /\ lastFilter' = [kind |-> "search", batching |-> BetweenBatches]
    /\ lastArrival' = <<>>
    /\ UNCHANGED <<server, checked, passes, sidebar, spinnerHidden, rafQueue,
                   lastGenre, fetches, modals, overlayPending, clicks>>

----------------------------------------------------------------------------
(* The detail overlay: showMovieDetails *)

\* the click handler of child i of the container: showMovieDetails(movie) up
\* to its await
ShowMovieDetails(i) ==
    /\ Len(clicks) < MaxClicks
    /\ i \in 1..Len(grid)
    /\ grid[i].cls = "movie-item"
    /\ clicks' = Append(clicks, grid[i].imdbId)
    /\ overlayPending' = overlayPending \cup {[n |-> Len(clicks) + 1, imdbId |-> grid[i].imdbId]}
    /\ fetches' = IssueFetch(fetches, "details", 1)
    /\ lastArrival' = <<>>
    /\ UNCHANGED <<server, checked, passes, grid, sidebar, spinnerHidden, rafQueue,
                   searchValue, lastGenre, filterCalls, lastFilter, modals>>

KeepExisting(body) == body

\* const existingModal = document.getElementById("movie-modal");
\* if (existingModal) existingModal.remove();
RemoveExisting(body) == IF body # <<>> THEN Tail(body) ELSE body


\* the modal built from the fetched details and the movie of the call
ModalOf(call, details) ==
    [ n |-> call.n, imdbId |-> call.imdbId, title |-> details.Title ]

\* the fetch of activation call resolves: the rest of showMovieDetails
OverlayFetched(call) ==
    /\ call \in overlayPending
    /\ call.imdbId \in DOMAIN server.details
    /\ modals' = Append(RemoveExisting(modals), ModalOf(call, server.details[call.imdbId]))
    /\ overlayPending' = overlayPending \ {call}
    /\ lastArrival' = <<>>
    /\ UNCHANGED <<server, checked, passes, grid, sidebar, spinnerHidden, rafQueue,
                   searchValue, lastGenre, filterCalls, lastFilter, fetches, clicks>>

----------------------------------------------------------------------------
(* Specifications *)

RenderStep ==
    \/ \E p \in 1..Len(passes) : IndexFetched(p)
    \/ \E p \in 1..Len(passes) : IconsFetched(p)
    \/ \E p \in 1..Len(passes) :
          \E order \in ArrivalOrders(Len(passes[p].imdbIds)) : DetailsFetched(p, order)
    \/ AnimationFrame

\* the whole page: render passes, view switches and the two filters
Next ==
    \/ RenderStep
    \/ ViewToggle
    \/ \E b \in 1..Len(sidebar) : SelectGenre(b)
    \/ \E value \in Queries : ApplySearch(value)

Spec == Init /\ [][Next]_vars

\* render passes and view switches alone; the filters write nothing but the
\* d-none flag of the mounted elements, which no render step reads
NextRender ==
    \/ RenderStep
    \/ ViewToggle

SpecRender == Init /\ [][NextRender]_vars

\* the first render pass and the two filters
NextFilter ==
    \/ RenderStep
    \/ \E b \in 1..Len(sidebar) : SelectGenre(b)
    \/ \E value \in Queries : ApplySearch(value)

SpecFilter == Init /\ [][NextFilter]_vars

\* one render pass on its own; the browser runs the callbacks passed to
\* requestAnimationFrame, while nothing makes the network answer a fetch
SpecSingle == Init /\ [][RenderStep]_vars /\ WF_vars(AnimationFrame)

\* the fetches that do not succeed
FetchFault ==
    \/ \E p \in 1..Len(passes) : IndexNotFound(p)
    \/ \E p \in 1..Len(passes) : IndexFetchFailed(p)
    \/ \E p \in 1..Len(passes) :
          \E k \in 1..Len(passes[p].imdbIds) : DetailsRejected(p, k)

\* the catalogs of one and the same record, of every length up to MaxSmall and
\* of the length of the long catalog: no step of a failing fetch reads a record
UniformCatalogs == {[k \in 1..n |-> LongRecord] : n \in 0..MaxSmall} \cup {LongCatalog}

InitFaults == Init /\ server \in {ServerOf(c) : c \in UniformCatalogs}

\* render passes and view switches over a network that may fail
NextFaults ==
    \/ RenderStep
    \/ ViewToggle
    \/ FetchFault

SpecFaults == InitFaults /\ [][NextFaults]_vars

\* the index files of the loader specification: a header row and up to MaxRows
\* rows, each of one of these shapes
RowShapes ==
    { EmptyRow,
      << <<"T">>, <<"Y">>, <<"F">>, <<"S">> >>,
      DataRow(<<>>),
      DataRow(IdOf(1)),
      DataRow(IdOf(2)),
      DataRow(IdOf(1)) \o << <<"x">> >> }

LoaderTables ==
    { <<header>> \o rows : header \in {HeaderRow, EmptyRow},
                           rows \in SeqsUpTo(RowShapes, MaxRows) }

InitLoader ==
    /\ server \in {[rows |-> t, details |-> <<>>] : t \in LoaderTables}
    /\ checked = TRUE
    /\ passes = <<NewPass(sGrid)>>
    /\ grid = showLoadingSkeleton
    /\ sidebar = <<>>
    /\ spinnerHidden = FALSE
    /\ rafQueue = <<>>
    /\ lastArrival = <<>>
    /\ searchValue = <<>>
    /\ lastGenre = sAll
    /\ filterCalls = "none"
    /\ lastFilter = [kind |-> "none", batching |-> FALSE]
    /\ fetches = IssueIndexFetch([index |-> 0, icons |-> 0, details |-> 0])
    /\ modals = <<>>
    /\ overlayPending = {}
    /\ clicks = <<>>

\* the catalog loader alone, on any index file
NextLoader == \E p \in 1..Len(passes) : IndexFetched(p)

SpecLoader == InitLoader /\ [][NextLoader]_vars

\* the catalogs that one batch mounts whole: no frame callback is requested
InitSmall == Init /\ server \in {ServerOf(c) : c \in SmallCatalogs}

\* the page's first render of such a catalog, and the detail overlay
NextOverlay ==
    \/ \E p \in 1..Len(passes) : IndexFetched(p)
    \/ \E p \in 1..Len(passes) : IconsFetched(p)
    \/ \E p \in 1..Len(passes) :
          \E order \in ArrivalOrders(Len(passes[p].imdbIds)) : DetailsFetched(p, order)
    \/ \E i \in 1..Len(grid) : ShowMovieDetails(i)
    \/ \E call \in overlayPending : OverlayFetched(call)

SpecOverlay == InitSmall /\ [][NextOverlay]_vars


----------------------------------------------------------------------------
(* What the claims speak of *)

\* the identifiers of an index file, read off its rows: column 5 of every row
\* after the header that has a non-empty column 5
ExpectedIdentifiers(rows) ==
    LET kept == SelectSeq(Tail(rows), LAMBDA r : Len(r) >= 5 /\ r[5] # <<>>)
    IN  [i \in 1..Len(kept) |-> kept[i][5]]

\* the genre names of the entry built from a detail record
EntryGenres(details) ==
    IF details.Genre.kind = "list" THEN Range(details.Genre.value) ELSE {sUnknown}

\* the genre list stored on an element: that of the entry it was built from
StoredGenres(item) == EntryGenres(server.details[item.imdbId])

\* title contains query, letter case ignored
ContainsIgnoringCase(title, query) ==
    \E off \in 0..(Len(title) - Len(query)) :
        \A j \in 1..Len(query) : LowerChar(title[off + j]) = LowerChar(query[j])

\* a comes strictly before b in the order of the code units
LexBefore(a, b) ==
    \E n \in 0..Len(a) :
        /\ n <= Len(b)
        /\ \A j \in 1..n : a[j] = b[j]
        /\ \/ n = Len(a) /\ n < Len(b)
           \/ n < Len(a) /\ n < Len(b) /\ CharCode(a[n + 1]) < CharCode(b[n + 1])

MovieItems == SelectSeq(grid, LAMBDA e : e.cls = "movie-item")

Visible(item) == ~item.dnone

\* C5: listIdentifiers returns column 5 (field 4, 0-based) of every line after
\* the header line whose column 5 is non-empty, in row order; a row with an
\* empty or missing fifth field contributes nothing.
C5_ListIdentifiers ==
    \A p \in 1..Len(passes) :
        passes[p].pc # "fetchIndex" =>
            passes[p].imdbIds = ExpectedIdentifiers(server.rows)

\* an index whose header has a fifth column, with a row without identifier
\* between two rows with one, has been read
C5_Witness ==
    /\ server.rows = <<HeaderRow, DataRow(IdOf(2)), DataRow(<<>>), DataRow(IdOf(1))>>
    /\ passes[1].pc = "fetchIcons"
    /\ passes[1].imdbIds = <<IdOf(2), IdOf(1)>>

\* C3: at most one overlay element (id movie-modal) is in the document, under
\* any interleaving of showDetails calls and fetch completions.
C3_AtMostOneOverlay == Len(modals) <= 1

\* two showMovieDetails calls have both run to their end
C3_Witness ==
    /\ Len(clicks) = 2
    /\ overlayPending = {}
    /\ Len(modals) = 1

\* C4: after showDetails for X and then for Y, once both fetches have completed
\* (in whichever order), the overlay present shows Y's data.
C4_LastOpenedIsShown ==
    (Len(clicks) >= 2 /\ overlayPending = {}) =>
        /\ Len(modals) = 1
        /\ modals[1].imdbId = clicks[Len(clicks)]
        /\ modals[1].title = server.details[clicks[Len(clicks)]].Title

\* C1: after any sequence of selectGenre and applySearch calls on a fully
\* rendered catalog, an element is visible iff it matches the last selected
\* genre AND its title contains the last typed query, case-insensitively.
C1_FiltersCombine ==
    (FullyRendered /\ filterCalls # "mixed") =>
        \A i \in 1..Len(MovieItems) :
            Visible(MovieItems[i]) <=>
                /\ lastGenre = sAll \/ lastGenre \in StoredGenres(MovieItems[i])
                /\ ContainsIgnoringCase(MovieItems[i].title, searchValue)

\* C2: genre selection overwrites: right after selectGenre(g), whatever was
\* selected or typed before, the visible elements are all elements if g is
\* "All" and otherwise exactly those whose stored genre list contains g.
C2_GenreSelectionOverwrites ==
    [][\A b \in 1..Len(sidebar) :
          SelectGenre(b) =>
              \A i \in 1..Len(grid') :
                  grid'[i].cls = "movie-item" =>
                      (Visible(grid'[i]) <=>
                          \/ sidebar[b] = sAll
                          \/ sidebar[b] \in StoredGenres(grid'[i]))]_vars

\* "Comedy" is the selection, after a search had hidden everything: an entry of
\* genres Horror and Comedy shows, an entry without Comedy does not
C2_Witness ==
    /\ lastGenre = sComedy
    /\ searchValue = <<"z">>
    /\ \E i \in 1..Len(MovieItems) :
          /\ StoredGenres(MovieItems[i]) = {sHorror, sComedy}
          /\ Visible(MovieItems[i])
    /\ \E i \in 1..Len(MovieItems) :
          /\ sComedy \notin StoredGenres(MovieItems[i])
          /\ ~Visible(MovieItems[i])

\* C6: once every render call has finished, the container holds exactly one
\* entry element per catalog entry, in catalog order, all in the view mode of
\* the last call.
C6_RenderRebuilds ==
    FullyRendered =>
        LET ids == ExpectedIdentifiers(server.rows)
        IN  /\ Len(MovieItems) = Len(ids)
            /\ \A k \in 1..Len(MovieItems) :
                  /\ MovieItems[k].imdbId = ids[k]
                  /\ MovieItems[k].view = passes[Len(passes)].view

RECURSIVE DetailFetchesOf(_)
DetailFetchesOf(ps) ==
    IF ps = <<>> THEN 0
    ELSE (IF Head(ps).pc \in {"fetchIndex", "fetchIcons"} THEN 0 ELSE Len(Head(ps).imdbIds))
         + DetailFetchesOf(Tail(ps))

C8_IndexPaired ==
    LET ids == ExpectedIdentifiers(server.rows)
    IN  /\ \A p \in 1..Len(passes) :
              passes[p].pc \in {"batching", "done"} =>
                  /\ Len(passes[p].allMovies) = Len(ids)
                  /\ \A k \in 1..Len(ids) :
                        /\ passes[p].allMovies[k].imdbId = ids[k]
                        /\ passes[p].allMovies[k].title = server.details[ids[k]].Title
        /\ \A i \in 1..Len(MovieItems) :
              /\ MovieItems[i].imdbId = ids[MovieItems[i].k]
              /\ MovieItems[i].title = server.details[ids[MovieItems[i].k]].Title
        /\ \A i, j \in 1..Len(MovieItems) :
              (i < j /\ MovieItems[i].pass = MovieItems[j].pass) =>
                  MovieItems[i].k < MovieItems[j].k

\* the fetch of the second identifier completed before that of the first, and
\* the two records differ
C8_Witness ==
    /\ lastArrival = <<2, 1>>
    /\ \E p \in 1..Len(passes) :
          /\ passes[p].pc = "done"
          /\ Len(passes[p].allMovies) = 2
          /\ passes[p].allMovies[1].title # passes[p].allMovies[2].title
    /\ Len(MovieItems) >= 2

\* C9: every entry built from a detail record has a non-empty genre list: when
\* Genre is absent, a scalar or an empty list the genres are the single
\* sentinel "Unknown", and the genres stored on the element are never empty.
C9_GenresNeverEmpty ==
    /\ \A p \in 1..Len(passes) :
          \A k \in 1..Len(passes[p].allMovies) :
              LET genre == server.details[passes[p].allMovies[k].imdbId].Genre
              IN  /\ passes[p].allMovies[k].genres # <<>>
                  /\ (genre.kind # "list" \/ genre.value = <<>>) =>
                        passes[p].allMovies[k].genres = sUnknown
    /\ \A i \in 1..Len(MovieItems) : MovieItems[i].genres # <<>>

\* the genre names of the catalog's entries
CatalogGenres ==
    UNION {EntryGenres(server.details[id]) : id \in Range(ExpectedIdentifiers(server.rows))}

\* C10: after a render the sidebar is the "All" control first, then exactly
\* the distinct genre names of the entries' genre lists (case-sensitive, each
\* once), in ascending lexical order.
C10_SidebarOrder ==
    /\ passes[Len(passes)].pc \in {"batching", "done"} => sidebar # <<>>
    /\ sidebar # <<>> =>
          /\ sidebar[1] = sAll
          /\ Range(Tail(sidebar)) = CatalogGenres
          /\ \A i, j \in 2..Len(sidebar) : i < j => LexBefore(sidebar[i], sidebar[j])

\* the genres Horror, Comedy (in this order in the data) and the lower-case
\* horror give All, Comedy, Horror, horror
C10_Witness ==
    /\ Len(server.rows) = 4
    /\ server.details[IdOf(1)].Genre.value = <<sHorror, sComedy>>
    /\ server.details[IdOf(2)].Genre.value = <<shorror, sHorror>>
    /\ sidebar = <<sAll, sComedy, sHorror, shorror>>

\* C11: when the index is unavailable (the fetch fails or the file is
\* missing), listIdentifiers yields the empty sequence without raising an
\* error, and the render pass goes on to its end with no entry element.
C11_UnavailableIndexIsSilent ==
    \A p \in 1..Len(passes) :
        passes[p].indexResponse \in {"notFound", "failed"} =>
            /\ passes[p].pc # "rejected"
            /\ passes[p].imdbIds = <<>>
            /\ \A i \in 1..Len(grid) : grid[i].pass # p

\* C12: when fetchDetails is rejected for one identifier during a render pass,
\* the rejection is not caught and the pass stops there: no element for that
\* identifier or a later one is mounted by the pass, and the pass builds no
\* sidebar control.
C12_RejectionStopsPass ==
    \A p \in 1..Len(passes) :
        passes[p].rejectedAt # 0 =>
            /\ passes[p].pc = "rejected"
            /\ \A i \in 1..Len(grid) :
                  (grid[i].cls = "movie-item" /\ grid[i].pass = p) =>
                      grid[i].k < passes[p].rejectedAt
            /\ ~passes[p].sidebarBuilt

\* the detail fetch of the second of two identifiers was rejected, in the
\* first render, and the page was switched to the other view afterwards
C12_Witness ==
    /\ Len(passes) = 2
    /\ passes[1].rejectedAt = 2
    /\ Len(passes[1].imdbIds) = 2
    /\ passes[2].pc = "done"

\* the elements of the catalog's first n entries, each once, in catalog order
MountedPrefix(n) ==
    LET ids == ExpectedIdentifiers(server.rows)
    IN  /\ Len(MovieItems) = n
        /\ n <= Len(ids)
        /\ \A i \in 1..n : MovieItems[i].k = i /\ MovieItems[i].imdbId = ids[i]

\* C13: a render pass with no other render running terminates: every step
\* mounts at most 10 elements, a further animation frame is requested exactly
\* while unmounted entries remain, what is mounted is always the first entries
\* of the catalog, each once and in order, and once renderMoviesIncrementally
\* has been called all of them eventually are, and no frame is pending.
C13_SinglePassTerminates ==
    /\ [][Len(grid') <= Len(grid) + batchSize]_vars
    /\ [](rafQueue # <<>> <=> passes[1].index < Len(passes[1].allMovies))
    /\ [](MountedPrefix(passes[1].index))
    /\ (passes[1].pc \in {"batching", "done"})
          ~> [](/\ passes[1].pc = "done"
                /\ rafQueue = <<>>
                /\ MountedPrefix(Len(ExpectedIdentifiers(server.rows))))

\* a catalog longer than one batch has been mounted whole, the last elements
\* by an animation frame
C13_Witness ==
    /\ Len(passes[1].allMovies) > batchSize
    /\ passes[1].pc = "done"
    /\ rafQueue = <<>>
    /\ Len(MovieItems) = Len(passes[1].allMovies)

\* C14: once a render pass has completed (all entries mounted and the sidebar
\* spinner hidden), the container holds no loading-skeleton placeholder.
C14_NoSkeletonAfterPass ==
    (FullyRendered /\ spinnerHidden) =>
        \A i \in 1..Len(grid) : grid[i].cls # "skeleton"

\* item matches the filter of the last filter call
MatchesLastFilter(item) ==
    IF lastFilter.kind = "search"
    THEN ContainsIgnoringCase(item.title, searchValue)
    ELSE lastGenre = sAll \/ lastGenre \in StoredGenres(item)

\* C15: a filter applied between two batches of a render pass, and not
\* followed by another filter call, also governs the elements mounted
\* afterwards: when the pass has completed, every mounted element that does
\* not match it is hidden.
C15_FilterGovernsLaterBatches ==
    (FullyRendered /\ lastFilter.kind # "none" /\ lastFilter.batching) =>
        \A i \in 1..Len(MovieItems) :
            ~MatchesLastFilter(MovieItems[i]) => ~Visible(MovieItems[i])

====
